---- MODULE Spec2Model ----
(***************************************************************************)
(* Mkulima AI backend: the image-to-diagnosis pipeline.                    *)
(*                                                                         *)
(*   src/backend/app.py                         predict_disease handler    *)
(*   src/backend/services/disease_predictor.py  DiseasePredictor           *)
(*   src/backend/services/image_processor.py    ImageProcessor.preprocess  *)
(*   src/backend/utils/validators.py            validate_image_file        *)
(*                                                                         *)
(* Real numbers (scores, confidences, percentages) are fixed-point with    *)
(* two decimals: the integer n stands for n/100.  So 0.8 is 80, 0.6 is 60, *)
(* the literal 95 is 9500 and "confidence * 100" is confidence * 100.      *)
(* Python indexes from 0, the sequences here from 1: index i of the code   *)
(* is index i+1 of the model.                                              *)
(***************************************************************************)
EXTENDS Integers, Sequences, FiniteSets, TLC

VARIABLES
    \* ---- the process-wide DiseasePredictor (app.py:27) ----
    model,          \* self.model: 0 for None, else the interpreter's output length
    labels,         \* self.labels: sequence of label strings
    input_shape,    \* self.input_shape: "unset" until load_model line 55
    output_shape,   \* self.output_shape: 0 until load_model line 56
    in_tensor,      \* the interpreter's input tensor: whose image it holds
    out_tensor,     \* the interpreter's output tensor: scores and their origin
    loads,          \* number of load_model calls made so far
    loading,        \* where the load_model call in progress stands
    interp_shape,   \* input shape of the interpreter self.model refers to
    \* ---- the requests served by predict_disease (app.py:57) ----
    pc,             \* position of each request inside the handler
    req,            \* request-local data of each request
    reports,        \* the rows committed to disease_reports
    \* ---- a direct call of DiseasePredictor.predict on one score vector ----
    p_scores, p_result,
    \* ---- direct calls of DiseasePredictor.estimate_severity ----
    s_confidence, s_calls,
    \* ---- direct calls of the recommendation and case lookups ----
    l_disease, l_limit, l_recs, l_cases,
    \* ---- a direct call of validate_image_file on one file ----
    v_file, v_result,
    v_run,          \* what the call did: returned dict, operations, position
    v_pos,          \* read position of the file's stream
    \* ---- direct calls of ImageProcessor.preprocess on that file ----
    d_runs,
    \* ---- a direct call of DiseasePredictor.is_ready ----
    h_ready,
    \* ---- the Python process ----
    server,         \* how the import of app.py, or of the module called, ended
    numpy_behavior  \* whether tf.Tensor carries the ndarray methods

predictorVars == <<model, labels, input_shape, output_shape, in_tensor, out_tensor, loads,
                   loading, interp_shape>>
requestVars   == <<pc, req, reports>>
predictVars   == <<p_scores, p_result>>
severityVars  == <<s_confidence, s_calls>>
lookupVars    == <<l_disease, l_limit, l_recs, l_cases>>
validateVars  == <<v_file, v_result, v_run, v_pos>>
directVars    == <<d_runs, h_ready>>
processVars   == <<server, numpy_behavior>>
vars == <<predictorVars, requestVars, predictVars, severityVars, lookupVars, validateVars,
          directVars, processVars>>

(***************************************************************************)
(* Bounds                                                                  *)
(***************************************************************************)
NumRequests == 2   \* concurrent requests served by the threaded server
MaxLoads    == 1   \* load_model calls
NumLeaves   == 2   \* distinct leaf photographs uploaded
MaxOut      == 4   \* longest score vector the interpreter emits
NumCalls    == 2   \* estimate_severity calls compared with each other
NumImages   == 2   \* distinct images handed to estimate_severity
ConfBelow   == 20  \* confidences handed to estimate_severity start at -0.20
MaxConf     == 120 \* highest confidence handed to estimate_severity (1.20)
MaxLimit    == 6   \* largest limit handed to find_similar_cases
NumRuns     == 2   \* preprocess calls made on one file
FramingBytes == 128 \* bytes of a multipart body around the file's own bytes

Requests == 1..NumRequests

\* Scores the interpreter may emit.  A softmax head stays in [0,1]; predict
\* takes any .tflite file, so a head that emits logits is covered as well.
ScoreVals == {-20, 0, 30, 70, 90, 120}

\* Lines of a labels file, in file order.
LabelPool == <<"healthy", "maize_rust", "tomato_early_blight",
               "tomato_late_blight", "coffee_berry_disease", "bean_rust">>

LabelList(n) == [i \in 1..n |-> LabelPool[i]]

\* A line of blanks in a labels file.
BlankLine == "  "

\* str.strip() on a line of a labels file (the line ends are left out of
\* the model's lines): a line of blanks becomes the empty string.
strip(line) == IF line = BlankLine THEN "" ELSE line

\* Labels files load_model may be handed, as their lines: the first n
\* labels, and the same with a line of blanks after the first label.
LabelFiles ==
    { LabelList(n) : n \in 0..MaxOut }
        \cup { [i \in 1..n |-> IF i = 1 THEN LabelPool[1]
                              ELSE IF i = 2 THEN BlankLine
                              ELSE LabelPool[i - 1]] : n \in 2..MaxOut }

\* load_model, line 49: [line.strip() for line in f.readlines()]
read_labels(lines) == [i \in 1..Len(lines) |-> strip(lines[i])]

Min2(a, b) == IF a <= b THEN a ELSE b

(***************************************************************************)
(* DiseasePredictor: pure parts                                            *)
(***************************************************************************)

\* get_severity_description (a dict lookup with a default)
get_severity_description(level) ==
    CASE level = "low"    -> "Early stage infection. Monitor regularly."
      [] level = "medium" -> "Moderate infection. Treatment recommended."
      [] level = "high"   -> "Severe infection. Immediate treatment required."
      [] OTHER            -> "Unknown severity level."

\* Mutant: >= instead of > at both thresholds.
estimate_severity_inclusive(image, disease, confidence) ==
    LET severity_level == IF confidence >= 80 THEN "high"
                          ELSE IF confidence >= 60 THEN "medium"
                          ELSE "low"
    IN  [level |-> severity_level,
         affected_area_percentage |-> Min2(confidence * 100, 9500),
         description |-> get_severity_description(severity_level),
         action_required |-> severity_level \in {"medium", "high"}]

\* Mutant: action is required for a high level only.
estimate_severity_high_only(image, disease, confidence) ==
    LET severity_level == IF confidence > 80 THEN "high"
                          ELSE IF confidence > 60 THEN "medium"
                          ELSE "low"
    IN  [level |-> severity_level,
         affected_area_percentage |-> Min2(confidence * 100, 9500),
         description |-> get_severity_description(severity_level),
         action_required |-> severity_level \in {"high"}]

\* Mutant: a healthy leaf is never severe (the rule looks at the label).
estimate_severity_by_label(image, disease, confidence) ==
    LET severity_level == IF disease = "healthy" THEN "low"
                          ELSE IF confidence > 80 THEN "high"
                          ELSE IF confidence > 60 THEN "medium"
                          ELSE "low"
    IN  [level |-> severity_level,
         affected_area_percentage |-> Min2(confidence * 100, 9500),
         description |-> get_severity_description(severity_level),
         action_required |-> severity_level \in {"medium", "high"}]

\* estimate_severity(image, disease, confidence)
estimate_severity(image, disease, confidence) ==
    LET severity_level == IF confidence > 80 THEN "high"
                          ELSE IF confidence > 60 THEN "medium"
                          ELSE "low"
        affected_area  == Min2(confidence * 100, 9500)
    IN  [level |-> severity_level,
         affected_area_percentage |-> affected_area,
         description |-> get_severity_description(severity_level),
         action_required |-> severity_level \in {"medium", "high"}]

\* Mutant: treatments_db.get(disease, []), no fallback entry.
get_treatment_recommendations_get(disease) ==
    CASE disease = "tomato_early_blight" ->
            << [type |-> "chemical", name |-> "Chlorothalonil", about |-> ""],
               [type |-> "cultural", name |-> "Crop rotation", about |-> ""] >>
      [] disease = "maize_rust" ->
            << [type |-> "chemical", name |-> "Triazole fungicides", about |-> ""] >>
      [] OTHER -> << >>

\* get_treatment_recommendations(disease): the entries are kept by type and
\* name; the fallback entry's description quotes the disease.
get_treatment_recommendations(disease) ==
    CASE disease = "tomato_early_blight" ->
            << [type |-> "chemical", name |-> "Chlorothalonil", about |-> ""],
               [type |-> "cultural", name |-> "Crop rotation", about |-> ""] >>
      [] disease = "maize_rust" ->
            << [type |-> "chemical", name |-> "Triazole fungicides", about |-> ""] >>
      [] OTHER ->
            << [type |-> "general", name |-> "Consult agricultural expert",
                about |-> disease] >>

\* find_similar_cases(disease, limit): two fixed sample cases
find_similar_cases(disease, limit) == << "case_001", "case_002" >>

\* np.argmax: the first index holding the maximum
argmax(p) ==
    CHOOSE i \in 1..Len(p) :
        /\ \A j \in 1..Len(p) : p[j] <= p[i]
        /\ \A j \in 1..(i - 1) : p[j] < p[i]

\* np.argsort with the default kind ('quicksort', which numpy documents as
\* not stable): every index order that sorts p ascending is a result the
\* build may produce; equal scores may come out in either order.
\* The orders are built lowest score first: `rest` are the indices not yet
\* placed, and any of those holding the least remaining score comes next.
RECURSIVE ascending_orders(_, _)
ascending_orders(p, rest) ==
    IF rest = {} THEN { << >> }
    ELSE UNION { { << i >> \o tail : tail \in ascending_orders(p, rest \ {i}) } :
                   i \in { i \in rest : \A j \in rest : p[i] <= p[j] } }

argsort(p) == ascending_orders(p, 1..Len(p))

\* Mutant: order[-3:] without the reversal.
top_indices_unreversed(order) ==
    [k \in 1..Min2(3, Len(order)) |-> order[Len(order) - Min2(3, Len(order)) + k]]

\* order[-3:][::-1]: the last three entries, last first
top_indices(order) ==
    [k \in 1..Min2(3, Len(order)) |-> order[Len(order) - k + 1]]

NoSeverity == [level |-> "", affected_area_percentage |-> 0,
               description |-> "", action_required |-> FALSE]

Raised(msg) ==
    [status |-> "error", error |-> msg, disease_name |-> "", confidence |-> 0,
     severity |-> NoSeverity, top_predictions |-> << >>,
     recommendations |-> << >>, similar_cases |-> << >>]

\* predict, lines 120-153: the result built for `image` from the output
\* tensor `predictions` and one argsort result `order` (the timestamp, a
\* wall-clock reading, is left out).  self.labels[i] raises
\* IndexError when the labels file is shorter than the output vector.
predict_result(image, lbls, predictions, order) ==
    LET top_index == argmax(predictions)
        top       == top_indices(order)
    IN  IF top_index > Len(lbls) \/ \E k \in 1..Len(top) : top[k] > Len(lbls)
        THEN Raised("list index out of range")
        ELSE LET confidence   == predictions[top_index]
                 disease_name == lbls[top_index]
             IN  [status |-> "ok", error |-> "",
                  disease_name |-> disease_name,
                  confidence |-> confidence,
                  severity |-> estimate_severity(image, disease_name, confidence),
                  top_predictions |->
                      [k \in 1..Len(top) |->
                          [disease |-> lbls[top[k]],
                           confidence |-> predictions[top[k]],
                           rank |-> k]],
                  recommendations |-> get_treatment_recommendations(disease_name),
                  similar_cases |-> find_similar_cases(disease_name, 5)]

(***************************************************************************)
(* validate_image_file                                                     *)
(***************************************************************************)
ALLOWED_MIME_TYPES == {"image/jpeg", "image/png", "image/gif", "image/bmp", "image/webp"}
ALLOWED_EXTENSIONS == {".jpg", ".jpeg", ".png", ".gif", ".bmp", ".webp"}

MinDimension == 100
MaxDimension == 5000
MaxFileSize  == 16777216    \* 16 * 1024 * 1024

\* config.py, line 24, loaded into app.config by app.py, line 22: the
\* largest request body werkzeug parses
MAX_CONTENT_LENGTH == 16777216

\* str.lower() on the extensions that occur
Lower(ext) ==
    CASE ext = ".JPG" -> ".jpg"
      [] ext = ".PNG" -> ".png"
      [] OTHER        -> ext

\* What can raise on a file before PIL is asked: nothing, read() of its
\* stream (a closed stream, an I/O error), or libmagic on its bytes.
Faults == {"none", "read", "magic"}

\* An uploaded file: the stem and extension of its name, what raises on it,
\* the media type libmagic detects in its bytes, whether Image.open takes
\* it, whether PIL opens and verifies it, the size PIL reports, the number
\* of bytes, whether cv2.imdecode can parse it, and which leaf it shows.
\* The sizes are the largest file that fits in a request body of
\* MAX_CONTENT_LENGTH bytes, and the two sizes around the validator's own
\* limit.  The streams are seekable, as the streams werkzeug hands over are.
Files ==
    { f \in [stem     : {"", "leaf"},
             ext      : {"", ".jpg", ".PNG", ".txt"},
             fault    : Faults,
             mime     : {"image/jpeg", "image/gif", "text/plain"},
             opens    : BOOLEAN,
             verifies : BOOLEAN,
             width    : {MinDimension - 1, MinDimension, MaxDimension, MaxDimension + 1},
             height   : {MinDimension - 1, MinDimension, MaxDimension, MaxDimension + 1},
             size     : {MAX_CONTENT_LENGTH - FramingBytes, MaxFileSize, MaxFileSize + 1},
             cv2_ok   : BOOLEAN,
             leaf     : 1..NumLeaves] : f.verifies => f.opens }

\* A rejection.  Three messages are kept up to their fixed part: "File type
\* not allowed" goes on to list ALLOWED_EXTENSIONS in the iteration order of
\* a Python set, "Invalid image file" to quote the exception PIL raised,
\* "Validation error" to quote the exception of read() or libmagic.
Invalid(msg) == [valid |-> FALSE, message |-> msg]

\* no validation has been made
NotValidated == [valid |-> FALSE, message |-> "not called"]

\* The read position of a stream of `size` bytes after the operations
\* `ops` were made on it from position `pos`.
RECURSIVE position_after(_, _, _)
position_after(ops, size, pos) ==
    IF ops = << >> THEN pos
    ELSE position_after(Tail(ops), size,
            CASE Head(ops) = "read"      -> size
              [] Head(ops) = "seek(0)"   -> 0
              [] Head(ops) = "seek(0,2)" -> size
              [] OTHER                   -> pos)

\* A return of the two-key dict, after the operations `ops`.
Rejected(f, msg, ops) ==
    [valid |-> FALSE, message |-> msg, keys |-> {"valid", "message"},
     mime_type |-> "", dimensions |-> << 0, 0 >>, file_size |-> 0,
     ops |-> ops, position |-> position_after(ops, f.size, 0), raised |-> FALSE]

\* The call has not been made.
NotRun ==
    [valid |-> FALSE, message |-> "not called", keys |-> {},
     mime_type |-> "", dimensions |-> << 0, 0 >>, file_size |-> 0,
     ops |-> << >>, position |-> 0, raised |-> FALSE]

\* An exception leaves a block after the operations `ops`, the last of
\* which raised: nothing is returned.
Raises(f, ops) ==
    [valid |-> FALSE, message |-> "", keys |-> {},
     mime_type |-> "", dimensions |-> << 0, 0 >>, file_size |-> 0,
     ops |-> ops, position |-> position_after(ops, f.size, 0), raised |-> TRUE]

\* except Exception as e: return {'valid': False, 'message': msg + str(e)}
\* around a block that ended as `run` (lines 106-110 and 112-117)
caught(run, msg) ==
    IF run.raised
    THEN [run EXCEPT !.raised = FALSE, !.message = msg, !.keys = {"valid", "message"}]
    ELSE run

\* The operations up to the media type check (lines 57-61)
to_mime == << "read", "seek(0)", "magic" >>

\* lines 70-104, the body of the inner try: Image.open, image.verify, the
\* dimension checks, the byte size
try_image(f) ==
    LET to_dims == to_mime \o << "open", "verify", "image.size" >>
        to_size == to_dims \o << "seek(0,2)", "tell", "seek(0)" >>
    IN  IF ~f.opens
        THEN Raises(f, to_mime \o << "open" >>)
        ELSE IF ~f.verifies
        THEN Raises(f, to_mime \o << "open", "verify" >>)
        ELSE IF f.width < MinDimension \/ f.height < MinDimension
        THEN Rejected(f, "Image too small. Minimum size: 100x100 pixels", to_dims)
        ELSE IF f.width > MaxDimension \/ f.height > MaxDimension
        THEN Rejected(f, "Image too large. Maximum size: 5000x5000 pixels", to_dims)
        ELSE IF f.size > MaxFileSize
        THEN Rejected(f, "File too large. Maximum size: 16MB", to_size)
        ELSE [valid |-> TRUE, message |-> "Image file is valid",
              keys |-> {"valid", "message", "mime_type", "dimensions", "file_size"},
              mime_type |-> f.mime, dimensions |-> << f.width, f.height >>,
              file_size |-> f.size,
              ops |-> to_size, position |-> position_after(to_size, f.size, 0),
              raised |-> FALSE]

\* lines 41-110, the body of the outer try: the filename and extension
\* checks, read() and seek(0), libmagic and the media type check, then the
\* inner try statement, which ended as `image`.  A read() that raises has
\* read nothing.
try_file(f, image) ==
    IF f.stem = "" /\ f.ext = ""
    THEN Rejected(f, "No image file selected", << >>)
    ELSE IF Lower(f.ext) \notin ALLOWED_EXTENSIONS
    THEN Rejected(f, "File type not allowed", << >>)
    ELSE IF f.fault = "read"
    THEN Raises(f, << "read raises" >>)
    ELSE IF f.fault = "magic"
    THEN Raises(f, to_mime)
    ELSE IF f.mime \notin ALLOWED_MIME_TYPES
    THEN Rejected(f, "Invalid file type: " \o f.mime, to_mime)
    ELSE image

\* Mutant: >= instead of > at the byte size (line 92).
validate_run_size_exclusive(f) ==
    LET to_dims == to_mime \o << "open", "verify", "image.size" >>
        to_size == to_dims \o << "seek(0,2)", "tell", "seek(0)" >>
        image ==
            IF ~f.opens
            THEN Raises(f, to_mime \o << "open" >>)
            ELSE IF ~f.verifies
            THEN Raises(f, to_mime \o << "open", "verify" >>)
            ELSE IF f.width < MinDimension \/ f.height < MinDimension
            THEN Rejected(f, "Image too small. Minimum size: 100x100 pixels", to_dims)
            ELSE IF f.width > MaxDimension \/ f.height > MaxDimension
            THEN Rejected(f, "Image too large. Maximum size: 5000x5000 pixels", to_dims)
            ELSE IF f.size >= MaxFileSize
            THEN Rejected(f, "File too large. Maximum size: 16MB", to_size)
            ELSE [valid |-> TRUE, message |-> "Image file is valid",
                  keys |-> {"valid", "message", "mime_type", "dimensions", "file_size"},
                  mime_type |-> f.mime, dimensions |-> << f.width, f.height >>,
                  file_size |-> f.size,
                  ops |-> to_size, position |-> position_after(to_size, f.size, 0),
                  raised |-> FALSE]
    IN  caught(try_file(f, caught(image, "Invalid image file")), "Validation error")

\* Mutant: no try blocks; an exception of read(), libmagic or PIL leaves
\* the function.
validate_run_unguarded(f) == try_file(f, try_image(f))

\* Mutant: no seek(0) after the size was taken (line 90).
validate_run_no_rewind(f) ==
    LET to_dims == to_mime \o << "open", "verify", "image.size" >>
        to_size == to_dims \o << "seek(0,2)", "tell" >>
        image ==
            IF ~f.opens
            THEN Raises(f, to_mime \o << "open" >>)
            ELSE IF ~f.verifies
            THEN Raises(f, to_mime \o << "open", "verify" >>)
            ELSE IF f.width < MinDimension \/ f.height < MinDimension
            THEN Rejected(f, "Image too small. Minimum size: 100x100 pixels", to_dims)
            ELSE IF f.width > MaxDimension \/ f.height > MaxDimension
            THEN Rejected(f, "Image too large. Maximum size: 5000x5000 pixels", to_dims)
            ELSE IF f.size > MaxFileSize
            THEN Rejected(f, "File too large. Maximum size: 16MB", to_size)
            ELSE [valid |-> TRUE, message |-> "Image file is valid",
                  keys |-> {"valid", "message", "mime_type", "dimensions", "file_size"},
                  mime_type |-> f.mime, dimensions |-> << f.width, f.height >>,
                  file_size |-> f.size,
                  ops |-> to_size, position |-> position_after(to_size, f.size, 0),
                  raised |-> FALSE]
    IN  caught(try_file(f, caught(image, "Invalid image file")), "Validation error")

\* validate_image_file, lines 40-117, on a stream at its start: the dict it
\* returns (its keys, and the values of the keys it has), the operations it
\* makes on the stream and the codecs in the order of the code, and the
\* read position it leaves.  An exception of PIL is caught at line 106, an
\* exception of read() or libmagic at line 112.
validate_run(f) ==
    caught(try_file(f, caught(try_image(f), "Invalid image file")), "Validation error")

\* Mutant: the detected media type is not checked.
validate_image_file_no_mime(f) ==
    IF f.stem = "" /\ f.ext = ""
    THEN Invalid("No image file selected")
    ELSE IF Lower(f.ext) \notin ALLOWED_EXTENSIONS
    THEN Invalid("File type not allowed")
    ELSE IF f.fault # "none"
    THEN Invalid("Validation error")
    ELSE IF ~f.verifies
    THEN Invalid("Invalid image file")
    ELSE IF f.width < MinDimension \/ f.height < MinDimension
    THEN Invalid("Image too small. Minimum size: 100x100 pixels")
    ELSE IF f.width > MaxDimension \/ f.height > MaxDimension
    THEN Invalid("Image too large. Maximum size: 5000x5000 pixels")
    ELSE IF f.size > MaxFileSize
    THEN Invalid("File too large. Maximum size: 16MB")
    ELSE [valid |-> TRUE, message |-> "Image file is valid"]

\* Mutant: <= and >= at the dimension bounds.
validate_image_file_open_bounds(f) ==
    IF f.stem = "" /\ f.ext = ""
    THEN Invalid("No image file selected")
    ELSE IF Lower(f.ext) \notin ALLOWED_EXTENSIONS
    THEN Invalid("File type not allowed")
    ELSE IF f.fault # "none"
    THEN Invalid("Validation error")
    ELSE IF f.mime \notin ALLOWED_MIME_TYPES
    THEN Invalid("Invalid file type: " \o f.mime)
    ELSE IF ~f.verifies
    THEN Invalid("Invalid image file")
    ELSE IF f.width <= MinDimension \/ f.height <= MinDimension
    THEN Invalid("Image too small. Minimum size: 100x100 pixels")
    ELSE IF f.width >= MaxDimension \/ f.height >= MaxDimension
    THEN Invalid("Image too large. Maximum size: 5000x5000 pixels")
    ELSE IF f.size > MaxFileSize
    THEN Invalid("File too large. Maximum size: 16MB")
    ELSE [valid |-> TRUE, message |-> "Image file is valid"]

\* validate_image_file(f): 'valid' and 'message' of the returned dict
validate_image_file(f) ==
    [valid |-> validate_run(f).valid, message |-> validate_run(f).message]

\* The request body that carries file f is longer than werkzeug accepts:
\* request.files raises RequestEntityTooLarge (app.py, line 65).
refused(f) == f.size + FramingBytes > MAX_CONTENT_LENGTH

\* What the handler sees of an upload: whether its body is parsed at all,
\* the outcome of the validation, and the two properties of the bytes the
\* later stages depend on.
Uploads ==
    { [refused |-> refused(f), result |-> validate_image_file(f),
       cv2_ok |-> f.cv2_ok, leaf |-> f.leaf] : f \in Files }

(***************************************************************************)
(* ImageProcessor                                                          *)
(*   A pixel array is kept as what it shows and what was done to it: the   *)
(*   leaf, the channel order, and the contrast and sharpness relative to   *)
(*   the decoded picture, in hundredths.                                   *)
(***************************************************************************)
NoPixels == [leaf |-> 0, order |-> "", contrast |-> 0, sharpness |-> 0]

\* cv2.imdecode(nparr, cv2.IMREAD_COLOR) on a buffer the codec parses
imdecode(f) == [leaf |-> f.leaf, order |-> "BGR", contrast |-> 100, sharpness |-> 100]

\* cv2.cvtColor(image, cv2.COLOR_BGR2RGB)
cvtColor(image) == [image EXCEPT !.order = "RGB"]

\* enhance_image: ImageEnhance.Contrast(...).enhance(1.2), then
\* ImageEnhance.Sharpness(...).enhance(1.1)
enhance_image(image) ==
    [image EXCEPT !.contrast = (@ * 120) \div 100,
                  !.sharpness = (@ * 110) \div 100]

\* preprocess raised: logged and re-raised (lines 53-55)
DecodeError(msg, bytes, size) ==
    [status |-> "error", error |-> msg, pixels |-> NoPixels,
     ops |-> << "read", "imdecode" >>, bytes |-> bytes, position |-> size]

\* image_file.read() raised (line 33): nothing was read, the position stays;
\* logged and re-raised (lines 53-55)
ReadError(pos) ==
    [status |-> "error", error |-> "read", pixels |-> NoPixels,
     ops |-> << "read raises" >>, bytes |-> 0, position |-> pos]

\* Mutant: no `image is None` check; whatever imdecode returned is passed on.
preprocess_unchecked(f, pos) ==
    LET bytes == f.size - pos
    IN  IF f.fault = "read"
        THEN ReadError(pos)
        ELSE IF bytes = 0
        THEN DecodeError("!buf.empty() in function 'imdecode_'", bytes, f.size)
        ELSE [status |-> "ok", error |-> "",
              pixels |-> IF f.cv2_ok THEN enhance_image(cvtColor(imdecode(f)))
                         ELSE NoPixels,
              ops |-> << "read", "imdecode", "cvtColor", "enhance_image" >>,
              bytes |-> bytes, position |-> f.size]

\* ImageProcessor.preprocess(image_file) on a stream at position `pos`:
\* read() hands over the bytes from `pos` to the end.  An empty buffer makes
\* cv2.imdecode raise cv2.error (builds that return None instead end in the
\* ValueError of line 40); a buffer the codec cannot parse makes it return
\* None.  A read() that raises leaves through the handler of line 53.
preprocess(f, pos) ==
    LET bytes == f.size - pos
    IN  IF f.fault = "read"
        THEN ReadError(pos)
        ELSE IF bytes = 0
        THEN DecodeError("!buf.empty() in function 'imdecode_'", bytes, f.size)
        ELSE IF ~f.cv2_ok
        THEN DecodeError("Could not decode image", bytes, f.size)
        ELSE [status |-> "ok", error |-> "",
              pixels |-> enhance_image(cvtColor(imdecode(f))),
              ops |-> << "read", "imdecode", "cvtColor", "enhance_image" >>,
              bytes |-> bytes, position |-> f.size]

NotDecoded ==
    [done |-> FALSE, fresh |-> FALSE, validated |-> FALSE, start |-> 0,
     status |-> "none", error |-> "", pixels |-> NoPixels, ops |-> << >>,
     bytes |-> 0]

(***************************************************************************)
(* The interpreter                                                         *)
(***************************************************************************)

\* The forward pass of the loaded network: the score the network gives
\* label i for a photograph of leaf `leaf`.  Leaf 1 is the healthy leaf
\* scored 0.92; leaf 2 is scored equally for the first two labels.
LeafScore(leaf, i) ==
    CASE leaf = 1 -> IF i = 1 THEN 92 ELSE 2
      [] leaf = 2 -> IF i <= 2 THEN 45 ELSE 0
      [] OTHER    -> IF i = leaf THEN 70 ELSE 10

Network(leaf, n) == [i \in 1..n |-> LeafScore(leaf, i)]

\* Input shapes of the .tflite files load_model may be handed: the RGB
\* network the training script exports, and a single-channel network.
RGBShape    == "1x224x224x3"
InputShapes == {RGBShape, "1x224x224x1"}

\* What get_input_details() of an interpreter leads to: one of the input
\* shapes, or an empty list of inputs.
NoInputs == "no inputs"
Interpreters == InputShapes \cup {NoInputs}

\* Tensors of a freshly allocated interpreter: nobody's data.
FreshInput  == [owner |-> 0, leaf |-> 0]
FreshOutput == [src |-> 0, leaf |-> 0]

(***************************************************************************)
(* DiseasePredictor.load_model                                             *)
(*   model is 0 for None, else the output vector length of the interpreter *)
(*   (the network served by the handler emits MaxOut scores).  The method  *)
(*   holds no lock: other threads run between its assignments.             *)
(***************************************************************************)

\* lines 42-45: self.model = tf.lite.Interpreter(...); allocate_tensors()
LoadInterpreter ==
    /\ server = "serving"
    /\ loading = "idle"
    /\ loads < MaxLoads
    /\ loads' = loads + 1
    /\ \/ \* tf.lite.Interpreter(model_path) raises: nothing was assigned
          UNCHANGED <<model, interp_shape, in_tensor, out_tensor, loading>>
       \/ \E shape \in Interpreters :
            /\ model' = MaxOut
            /\ interp_shape' = shape
            /\ in_tensor' = FreshInput
            /\ out_tensor' = FreshOutput
            /\ loading' = "labels"
    /\ UNCHANGED <<labels, input_shape, output_shape, requestVars, predictVars,
                   severityVars, lookupVars, validateVars, directVars, processVars>>

\* lines 48-49: the labels file is opened and read
LoadLabels ==
    /\ loading = "labels"
    /\ \/ \* open(labels_path) raises: self.model is already replaced
          /\ loading' = "idle"
          /\ UNCHANGED labels
       \/ \E lines \in LabelFiles :
            /\ labels' = read_labels(lines)
            /\ loading' = "details"
    /\ UNCHANGED <<model, input_shape, output_shape, in_tensor, out_tensor, loads,
                   interp_shape, requestVars, predictVars, severityVars, lookupVars,
                   validateVars, directVars, processVars>>

\* lines 52-65: the shapes are taken from the interpreter's details
LoadDetails ==
    /\ loading = "details"
    /\ loading' = "idle"
    /\ IF interp_shape = NoInputs
       THEN \* input_details[0] raises IndexError (line 55)
            UNCHANGED <<input_shape, output_shape>>
       ELSE /\ input_shape' = interp_shape
            /\ output_shape' = model
    /\ UNCHANGED <<model, labels, in_tensor, out_tensor, loads, interp_shape,
                   requestVars, predictVars, severityVars, lookupVars, validateVars,
                   directVars, processVars>>

LoadModel == LoadInterpreter \/ LoadLabels \/ LoadDetails

\* is_ready
is_ready == model # 0 /\ Len(labels) > 0

(***************************************************************************)
(* predict_disease (app.py), one step per call that touches shared state   *)
(***************************************************************************)
NoPrediction ==
    [status |-> "none", error |-> "", disease_name |-> "", confidence |-> 0,
     severity |-> NoSeverity, top_predictions |-> << >>,
     recommendations |-> << >>, similar_cases |-> << >>]

\* A request as it enters the handler.  Besides the handler's locals it
\* keeps a history: `calls` lists the pipeline functions the request has
\* invoked, `stages` the stages that have succeeded, each in the order in
\* which the handler got there.
NewRequest ==
    [cv2_ok |-> FALSE, leaf |-> 0, src |-> 0, farmer_id |-> "",
     validation |-> NotValidated, calls |-> << >>, stages |-> << >>,
     prediction |-> NoPrediction, code |-> 0, error |-> "", report_id |-> 0]

\* the request has invoked `op`
Call(rq, op) == [rq EXCEPT !.calls = Append(@, op)]

\* a stage of the request has succeeded
Pass(rq, stage) == [rq EXCEPT !.stages = Append(@, stage)]

\* return jsonify({"error": msg}), code
Answer(rq, code, msg) == [rq EXCEPT !.code = code, !.error = msg]

Respond(r, code, msg) ==
    /\ req' = [req EXCEPT ![r] = Answer(@, code, msg)]
    /\ pc' = [pc EXCEPT ![r] = "done"]

\* str(e) of werkzeug's RequestEntityTooLarge
RequestTooLarge ==
    "413 Request Entity Too Large: The data value transmitted exceeds the capacity limit."

\* Mutant: a rejected upload is written to the reports table.
Validate_recording(r) ==
    /\ server = "serving"
    /\ pc[r] = "start"
    /\ \/ /\ Respond(r, 400, "No image file provided")
          /\ UNCHANGED reports
       \/ \E image_file \in Uploads :
            LET validation_result == image_file.result
                called == [Call(req[r], "validate") EXCEPT
                               !.validation = validation_result]
            IN  IF image_file.refused
                THEN Respond(r, 500, RequestTooLarge) /\ UNCHANGED reports
                ELSE IF ~validation_result.valid
                THEN /\ req' = [req EXCEPT ![r] =
                                   Answer(called, 400, validation_result.message)]
                     /\ pc' = [pc EXCEPT ![r] = "done"]
                     /\ reports' = Append(reports,
                            [farmer_id |-> "", request |-> r,
                             disease_name |-> "", confidence |-> 0])
                ELSE /\ req' = [req EXCEPT ![r] =
                                   [Pass(called, "validated") EXCEPT
                                       !.cv2_ok = image_file.cv2_ok,
                                       !.leaf = image_file.leaf]]
                     /\ pc' = [pc EXCEPT ![r] = "validated"]
                     /\ UNCHANGED reports
    /\ UNCHANGED <<predictorVars, predictVars, severityVars, lookupVars, validateVars,
                   directVars, processVars>>

\* Mutant: the handler goes on whatever validate_image_file answered.
Validate_unchecked(r) ==
    /\ server = "serving"
    /\ pc[r] = "start"
    /\ \/ Respond(r, 400, "No image file provided")
       \/ \E image_file \in Uploads :
            LET validation_result == image_file.result
                called == [Call(req[r], "validate") EXCEPT
                               !.validation = validation_result,
                               !.cv2_ok = image_file.cv2_ok,
                               !.leaf = image_file.leaf]
            IN  IF image_file.refused
                THEN Respond(r, 500, RequestTooLarge)
                ELSE /\ req' = [req EXCEPT ![r] = IF validation_result.valid
                                                  THEN Pass(called, "validated")
                                                  ELSE called]
                     /\ pc' = [pc EXCEPT ![r] = "validated"]
    /\ UNCHANGED <<predictorVars, reports, predictVars, severityVars, lookupVars, validateVars, directVars, processVars>>

\* lines 63-73 and 106-107: the request arrives, request.files parses its
\* body and the file is validated
Validate(r) ==
    /\ server = "serving"
    /\ pc[r] = "start"
    /\ \/ \* 'image' not in request.files
          Respond(r, 400, "No image file provided")
       \/ \E image_file \in Uploads :
            LET validation_result == image_file.result
                called == [Call(req[r], "validate") EXCEPT
                               !.validation = validation_result]
            IN  IF image_file.refused
                THEN \* request.files raises; the handler's except answers
                     Respond(r, 500, RequestTooLarge)
                ELSE IF ~validation_result.valid
                THEN /\ req' = [req EXCEPT ![r] =
                                   Answer(called, 400, validation_result.message)]
                     /\ pc' = [pc EXCEPT ![r] = "done"]
                ELSE /\ req' = [req EXCEPT ![r] =
                                   [Pass(called, "validated") EXCEPT
                                       !.cv2_ok = image_file.cv2_ok,
                                       !.leaf = image_file.leaf]]
                     /\ pc' = [pc EXCEPT ![r] = "validated"]
    /\ UNCHANGED <<predictorVars, reports, predictVars, severityVars, lookupVars, validateVars, directVars, processVars>>

\* Mutant: a failed decode is swallowed and the handler goes on.
Preprocess_lenient(r) ==
    /\ pc[r] = "validated"
    /\ req' = [req EXCEPT ![r] = IF ~req[r].cv2_ok
                                 THEN Call(@, "preprocess")
                                 ELSE Pass(Call(@, "preprocess"), "decoded")]
    /\ pc' = [pc EXCEPT ![r] = "decoded"]
    /\ UNCHANGED <<predictorVars, reports, predictVars, severityVars, lookupVars, validateVars, directVars, processVars>>

\* Mutant: a failed decode is tried a second time before it is reported.
Preprocess_retry(r) ==
    /\ pc[r] = "validated"
    /\ IF ~req[r].cv2_ok
       THEN IF Len(req[r].calls) < 2
            THEN /\ req' = [req EXCEPT ![r] = Call(@, "preprocess")]
                 /\ UNCHANGED pc
            ELSE /\ req' = [req EXCEPT ![r] =
                               Answer(Call(@, "preprocess"), 500, "Could not decode image")]
                 /\ pc' = [pc EXCEPT ![r] = "done"]
       ELSE /\ req' = [req EXCEPT ![r] = Pass(Call(@, "preprocess"), "decoded")]
            /\ pc' = [pc EXCEPT ![r] = "decoded"]
    /\ UNCHANGED <<predictorVars, reports, predictVars, severityVars, lookupVars, validateVars, directVars, processVars>>

\* line 81: image_processor.preprocess(image_file)
Preprocess(r) ==
    /\ pc[r] = "validated"
    /\ IF ~req[r].cv2_ok
       THEN /\ req' = [req EXCEPT ![r] =
                          Answer(Call(@, "preprocess"), 500, "Could not decode image")]
            /\ pc' = [pc EXCEPT ![r] = "done"]
       ELSE /\ req' = [req EXCEPT ![r] = Pass(Call(@, "preprocess"), "decoded")]
            /\ pc' = [pc EXCEPT ![r] = "decoded"]
    /\ UNCHANGED <<predictorVars, reports, predictVars, severityVars, lookupVars, validateVars, directVars, processVars>>

ModelNotLoaded == "Model not loaded. Call load_model() first."
NoInputShape   == "'DiseasePredictor' object has no attribute 'input_shape'"
CannotSetTensor == "Cannot set tensor: Dimension mismatch"
NoAstype == "'tensorflow.python.framework.ops.EagerTensor' object has no attribute 'astype'"
NoDetails == "list index out of range"

\* Mutant: predict without the `self.model is None` check; the first thing
\* to fail is then preprocess_image reading self.input_shape.
PredictEnter_unchecked(r) ==
    /\ pc[r] = "decoded"
    /\ IF input_shape = "unset"
       THEN /\ req' = [req EXCEPT ![r] = Answer(Call(@, "predict"), 500, NoInputShape)]
            /\ pc' = [pc EXCEPT ![r] = "done"]
       ELSE IF ~numpy_behavior
       THEN /\ req' = [req EXCEPT ![r] = Answer(Call(@, "predict"), 500, NoAstype)]
            /\ pc' = [pc EXCEPT ![r] = "done"]
       ELSE /\ req' = [req EXCEPT ![r] = Call(@, "predict")]
            /\ pc' = [pc EXCEPT ![r] = "set_tensor"]
    /\ UNCHANGED <<predictorVars, reports, predictVars, severityVars, lookupVars, validateVars, directVars, processVars>>

\* predict, lines 102-107: the model check and preprocess_image, which
\* reads self.input_shape (line 78) and calls .astype on what
\* tf.image.resize returned (line 85): a tf.Tensor has that method only in
\* a process where TensorFlow's NumPy behaviour is switched on.
PredictEnter(r) ==
    /\ pc[r] = "decoded"
    /\ IF model = 0
       THEN /\ req' = [req EXCEPT ![r] = Answer(Call(@, "predict"), 500, ModelNotLoaded)]
            /\ pc' = [pc EXCEPT ![r] = "done"]
       ELSE IF input_shape = "unset"
       THEN /\ req' = [req EXCEPT ![r] = Answer(Call(@, "predict"), 500, NoInputShape)]
            /\ pc' = [pc EXCEPT ![r] = "done"]
       ELSE IF ~numpy_behavior
       THEN /\ req' = [req EXCEPT ![r] = Answer(Call(@, "predict"), 500, NoAstype)]
            /\ pc' = [pc EXCEPT ![r] = "done"]
       ELSE /\ req' = [req EXCEPT ![r] = Call(@, "predict")]
            /\ pc' = [pc EXCEPT ![r] = "set_tensor"]
    /\ UNCHANGED <<predictorVars, reports, predictVars, severityVars, lookupVars, validateVars, directVars, processVars>>

\* predict, lines 110-111: self.model.get_input_details() and
\* self.model.set_tensor(...), on the interpreter self.model refers to
\* now.  input_details[0] raises IndexError on an interpreter without
\* inputs.  The array handed over is 1 x H x W x 3 (the decoder always
\* produces three channels), so an interpreter whose input has another
\* channel count refuses it with a ValueError.  predict re-raises both
\* (lines 155-157).
SetTensor(r) ==
    /\ pc[r] = "set_tensor"
    /\ IF interp_shape = NoInputs
       THEN /\ req' = [req EXCEPT ![r] = Answer(@, 500, NoDetails)]
            /\ pc' = [pc EXCEPT ![r] = "done"]
            /\ UNCHANGED in_tensor
       ELSE IF interp_shape # RGBShape
       THEN /\ req' = [req EXCEPT ![r] = Answer(Call(@, "set_tensor"), 500, CannotSetTensor)]
            /\ pc' = [pc EXCEPT ![r] = "done"]
            /\ UNCHANGED in_tensor
       ELSE /\ in_tensor' = [owner |-> r, leaf |-> req[r].leaf]
            /\ req' = [req EXCEPT ![r] = Call(@, "set_tensor")]
            /\ pc' = [pc EXCEPT ![r] = "invoke"]
    /\ UNCHANGED <<model, labels, input_shape, output_shape, out_tensor, loads,
                   loading, interp_shape, reports, predictVars, severityVars, lookupVars, validateVars, directVars, processVars>>

\* predict, line 114: self.model.invoke() computes the output tensor from
\* whatever the input tensor holds now
Invoke(r) ==
    /\ pc[r] = "invoke"
    /\ out_tensor' = [src |-> in_tensor.owner, leaf |-> in_tensor.leaf]
    /\ req' = [req EXCEPT ![r] = Call(@, "invoke")]
    /\ pc' = [pc EXCEPT ![r] = "get_tensor"]
    /\ UNCHANGED <<model, labels, input_shape, output_shape, in_tensor, loads,
                   loading, interp_shape, reports, predictVars, severityVars, lookupVars, validateVars, directVars, processVars>>

\* predict, lines 117-157: self.model.get_tensor(...) and the ranking of
\* what it returned, then the severity (line 137) and the recommendations
\* and similar cases (lines 140-143).  A tensor nobody wrote holds
\* unspecified data.
GetTensor(r) ==
    /\ pc[r] = "get_tensor"
    /\ \E l \in IF out_tensor.leaf = 0 THEN 1..NumLeaves ELSE {out_tensor.leaf} :
         LET predictions == Network(l, model)
         IN  \E order \in argsort(predictions) :
               LET result == predict_result(r, labels, predictions, order)
                   called == [Call(req[r], "get_tensor") EXCEPT !.src = out_tensor.src]
               IN  IF result.status = "error"
                   THEN /\ req' = [req EXCEPT ![r] = Answer(called, 500, result.error)]
                        /\ pc' = [pc EXCEPT ![r] = "done"]
                   ELSE /\ req' = [req EXCEPT ![r] =
                                      [Pass(Pass(Pass(called, "classified"),
                                                 "severity"), "enriched")
                                          EXCEPT !.prediction = result]]
                        /\ pc' = [pc EXCEPT ![r] = "classified"]
    /\ UNCHANGED <<predictorVars, reports, predictVars, severityVars, lookupVars, validateVars, directVars, processVars>>

\* str(e) of the exception db.session.commit() raises on a database that
\* has no disease_reports table (nothing in the repository creates it)
DatabaseError == "(sqlite3.OperationalError) no such table: disease_reports"

\* lines 86-97 and 100-107: when a farmer_id came with the form the report
\* is added and committed; an exception of the session ends the request in
\* the handler's except.  Without farmer_id the diagnosis is returned.
Save(r) ==
    /\ pc[r] = "classified"
    /\ \E farmer_id \in {"", "farmer_1"} :
         IF farmer_id = ""
         THEN /\ req' = [req EXCEPT ![r].code = 200]
              /\ pc' = [pc EXCEPT ![r] = "done"]
              /\ UNCHANGED reports
         ELSE \/ \* db.session.add or db.session.commit raises
                 /\ req' = [req EXCEPT ![r] =
                                Answer([@ EXCEPT !.farmer_id = farmer_id],
                                       500, DatabaseError)]
                 /\ pc' = [pc EXCEPT ![r] = "done"]
                 /\ UNCHANGED reports
              \/ \* the row is committed
                 /\ reports' = Append(reports,
                        [farmer_id |-> farmer_id, request |-> r,
                         disease_name |-> req[r].prediction.disease_name,
                         confidence |-> req[r].prediction.confidence])
                 /\ req' = [req EXCEPT ![r].farmer_id = farmer_id]
                 /\ pc' = [pc EXCEPT ![r] = "committed"]
    /\ UNCHANGED <<predictorVars, predictVars, severityVars, lookupVars, validateVars, directVars, processVars>>

\* lines 98-104: prediction['report_id'] = report.id, and the diagnosis is
\* returned
Reply(r) ==
    /\ pc[r] = "committed"
    /\ req' = [req EXCEPT
                  ![r].report_id = CHOOSE i \in 1..Len(reports) : reports[i].request = r,
                  ![r].code = 200]
    /\ pc' = [pc EXCEPT ![r] = "done"]
    /\ UNCHANGED <<predictorVars, reports, predictVars, severityVars, lookupVars,
                   validateVars, directVars, processVars>>

(***************************************************************************)
(* Direct calls                                                            *)
(***************************************************************************)

\* The tensors after a direct call of predict got as far as invoke: they
\* hold the caller's image and the scores computed from it.
DirectInput  == [owner |-> NumRequests + 1, leaf |-> NumLeaves + 1]
DirectOutput == [src |-> NumRequests + 1, leaf |-> NumLeaves + 1]

\* Mutant: predict cuts the label list down to the labels it listed.
PredictCall_trimming ==
    /\ p_result.status = "none"
    /\ IF model = 0
       THEN p_result' = Raised(ModelNotLoaded) /\ UNCHANGED <<labels, in_tensor, out_tensor>>
       ELSE IF input_shape = "unset"
       THEN p_result' = Raised(NoInputShape) /\ UNCHANGED <<labels, in_tensor, out_tensor>>
       ELSE IF ~numpy_behavior
       THEN p_result' = Raised(NoAstype) /\ UNCHANGED <<labels, in_tensor, out_tensor>>
       ELSE IF interp_shape = NoInputs
       THEN p_result' = Raised(NoDetails) /\ UNCHANGED <<labels, in_tensor, out_tensor>>
       ELSE IF interp_shape # RGBShape
       THEN p_result' = Raised(CannotSetTensor) /\ UNCHANGED <<labels, in_tensor, out_tensor>>
       ELSE /\ \E order \in argsort(p_scores) :
                 p_result' = predict_result("image", labels, p_scores, order)
            /\ in_tensor' = DirectInput
            /\ out_tensor' = DirectOutput
            /\ labels' = SubSeq(labels, 1, Min2(3, Len(labels)))
    /\ UNCHANGED <<model, input_shape, output_shape, loads, loading, interp_shape,
                   requestVars, p_scores, severityVars, lookupVars, validateVars,
                   directVars, processVars>>

\* predict called on its own, single-threaded: the whole method, with the
\* interpreter emitting p_scores for the image.  set_tensor and invoke
\* overwrite the interpreter's tensors before the ranking can fail.
PredictCall ==
    /\ p_result.status = "none"
    /\ IF model = 0
       THEN p_result' = Raised(ModelNotLoaded) /\ UNCHANGED <<in_tensor, out_tensor>>
       ELSE IF input_shape = "unset"
       THEN p_result' = Raised(NoInputShape) /\ UNCHANGED <<in_tensor, out_tensor>>
       ELSE IF ~numpy_behavior
       THEN p_result' = Raised(NoAstype) /\ UNCHANGED <<in_tensor, out_tensor>>
       ELSE IF interp_shape = NoInputs
       THEN p_result' = Raised(NoDetails) /\ UNCHANGED <<in_tensor, out_tensor>>
       ELSE IF interp_shape # RGBShape
       THEN p_result' = Raised(CannotSetTensor) /\ UNCHANGED <<in_tensor, out_tensor>>
       ELSE /\ \E order \in argsort(p_scores) :
                 p_result' = predict_result("image", labels, p_scores, order)
            /\ in_tensor' = DirectInput
            /\ out_tensor' = DirectOutput
    /\ UNCHANGED <<model, labels, input_shape, output_shape, loads, loading, interp_shape,
                   requestVars, p_scores, severityVars, lookupVars, validateVars,
                   directVars, processVars>>

\* estimate_severity(image, disease, s_confidence), call number c
SeverityCall(c) ==
    /\ s_calls[c].done = FALSE
    /\ \E image \in 1..NumImages, disease \in {"healthy", "maize_rust"} :
         s_calls' = [s_calls EXCEPT ![c] =
                        [done |-> TRUE, image |-> image, disease |-> disease,
                         severity |-> estimate_severity(image, disease, s_confidence)]]
    /\ UNCHANGED <<predictorVars, requestVars, predictVars, s_confidence, lookupVars, validateVars, directVars, processVars>>

\* Labels handed to the lookups: the labels of a labels file, and two
\* strings no labels file of the repository holds.
LookupLabels == { LabelPool[i] : i \in 1..Len(LabelPool) } \cup {"", "Late Blight"}

NotLookedUp == [called |-> FALSE, entries |-> << >>]

\* get_treatment_recommendations(l_disease)
RecommendCall ==
    /\ ~l_recs.called
    /\ l_recs' = [called |-> TRUE, entries |-> get_treatment_recommendations(l_disease)]
    /\ UNCHANGED <<predictorVars, requestVars, predictVars, severityVars,
                   l_disease, l_limit, l_cases, validateVars, directVars, processVars>>

\* find_similar_cases(l_disease, l_limit)
SimilarCasesCall ==
    /\ ~l_cases.called
    /\ l_cases' = [called |-> TRUE, entries |-> find_similar_cases(l_disease, l_limit)]
    /\ UNCHANGED <<predictorVars, requestVars, predictVars, severityVars,
                   l_disease, l_limit, l_recs, validateVars, directVars, processVars>>

\* validate_image_file(v_file)
ValidateCall ==
    /\ v_result = NotValidated
    /\ v_pos = 0
    /\ v_result' = validate_image_file(v_file)
    /\ v_run' = validate_run(v_file)
    /\ v_pos' = validate_run(v_file).position
    /\ UNCHANGED <<predictorVars, requestVars, predictVars, severityVars,
                   lookupVars, v_file, directVars, processVars>>

\* image_processor.preprocess(v_file), call number c, on the stream as it
\* stands or on a fresh stream over the same bytes; there is a processor
\* to call only where its module loaded
PreprocessCall(c) ==
    /\ server = "serving"
    /\ ~d_runs[c].done
    /\ \E fresh \in BOOLEAN :
         LET pos == IF fresh THEN 0 ELSE v_pos
             out == preprocess(v_file, pos)
         IN  /\ d_runs' = [d_runs EXCEPT ![c] =
                    [done |-> TRUE, fresh |-> fresh, validated |-> v_run # NotRun,
                     start |-> pos, status |-> out.status, error |-> out.error,
                     pixels |-> out.pixels, ops |-> out.ops, bytes |-> out.bytes]]
             /\ v_pos' = IF fresh THEN v_pos ELSE out.position
    /\ UNCHANGED <<predictorVars, requestVars, predictVars, severityVars, lookupVars,
                   v_file, v_result, v_run, h_ready, processVars>>

NotAsked == [called |-> FALSE, ready |-> FALSE]

\* disease_predictor.is_ready()
ReadyCall ==
    /\ ~h_ready.called
    /\ h_ready' = [called |-> TRUE, ready |-> is_ready]
    /\ UNCHANGED <<predictorVars, requestVars, predictVars, severityVars, lookupVars,
                   validateVars, d_runs, processVars>>

(***************************************************************************)
(* Specifications                                                          *)
(***************************************************************************)
PredictorInit ==
    /\ model = 0
    /\ labels = << >>
    /\ input_shape = "unset"
    /\ output_shape = 0
    /\ in_tensor = FreshInput
    /\ out_tensor = FreshOutput
    /\ loads = 0
    /\ loading = "idle"
    /\ interp_shape = "none"

RequestsInit ==
    /\ pc = [r \in Requests |-> "start"]
    /\ req = [r \in Requests |-> NewRequest]
    /\ reports = << >>

NoCall == [done |-> FALSE, image |-> 0, disease |-> "", severity |-> NoSeverity]

PredictIdle ==
    /\ p_scores = << 0 >>
    /\ p_result = NoPrediction

SeverityIdle ==
    /\ s_confidence = 0
    /\ s_calls = [c \in 1..NumCalls |-> NoCall]

LookupIdle ==
    /\ l_disease = ""
    /\ l_limit = 5
    /\ l_recs = NotLookedUp
    /\ l_cases = NotLookedUp

NoFile == [stem |-> "", ext |-> "", fault |-> "none", mime |-> "", opens |-> FALSE,
           verifies |-> FALSE,
           width |-> 0, height |-> 0, size |-> 0, cv2_ok |-> FALSE, leaf |-> 0]

ValidateIdle ==
    /\ v_file = NoFile
    /\ v_result = NotValidated
    /\ v_run = NotRun
    /\ v_pos = 0

NoRuns == [c \in 1..NumRuns |-> NotDecoded]

DirectIdle ==
    /\ d_runs = NoRuns
    /\ h_ready = NotAsked

\* The import of app.py.  As the repository stands it raises: line 13
\* imports services, whose image_processor annotates with a Dict it never
\* imported (line 201), and line 16 asks models.database for a
\* DiseaseReport it does not define; no request is then ever handled.  In
\* a deployment that supplies the two names the import goes through and
\* the server serves.  Nothing in the repository switches TensorFlow's
\* NumPy behaviour on; something else in the serving process may have.
ProcessStart ==
    \/ server = "failed" /\ numpy_behavior = FALSE
    \/ server = "serving" /\ numpy_behavior \in BOOLEAN

\* disease_predictor.py and validators.py loaded on their own, in a process
\* as the repository leaves it: both import every name they use
Loaded == server = "serving" /\ numpy_behavior = FALSE

\* image_processor.py loaded on its own.  The annotation `-> Dict` of line
\* 201 names a Dict the module never imported: a runtime that evaluates
\* annotations when the def runs (Python up to 3.13) raises NameError inside
\* the class body and there is no ImageProcessor to call; a runtime that
\* defers them creates the class.  The repository pins no Python version.
ProcessorLoad ==
    /\ server \in {"failed", "serving"}
    /\ numpy_behavior = FALSE

\* The server: DiseasePredictor() as app.py constructs it, requests arriving
Init == PredictorInit /\ RequestsInit /\ PredictIdle /\ SeverityIdle
        /\ LookupIdle /\ ValidateIdle /\ DirectIdle /\ ProcessStart

Next ==
    \/ LoadModel
    \/ \E r \in Requests :
         \/ Validate(r)
         \/ Preprocess(r)
         \/ PredictEnter(r)
         \/ SetTensor(r)
         \/ Invoke(r)
         \/ GetTensor(r)
         \/ Save(r)
         \/ Reply(r)

Spec == Init /\ [][Next]_vars

\* One request served on its own, the model loaded before, during or after
\* it, or never
NextRequest ==
    \/ LoadModel
    \/ Validate(1)
    \/ Preprocess(1)
    \/ PredictEnter(1)
    \/ SetTensor(1)
    \/ Invoke(1)
    \/ GetTensor(1)
    \/ Save(1)
    \/ Reply(1)

SpecRequest == Init /\ [][NextRequest]_vars

\* The worker thread that serves the request runs the handler to its
\* return: every call of the handler returns or raises.
Step(r) ==
    \/ Validate(r) \/ Preprocess(r) \/ PredictEnter(r) \/ SetTensor(r)
    \/ Invoke(r) \/ GetTensor(r) \/ Save(r) \/ Reply(r)

FairRequest == SpecRequest /\ WF_vars(Step(1))

\* predict on a predictor as constructed (no model), on one whose
\* load_model raised, and on a loaded one for every score vector and every
\* labels file
InitPredict ==
    /\ RequestsInit /\ SeverityIdle /\ LookupIdle /\ ValidateIdle /\ DirectIdle
    /\ server = "serving" /\ numpy_behavior \in BOOLEAN
    /\ in_tensor = FreshInput /\ out_tensor = FreshOutput
    /\ p_result = NoPrediction
    /\ loading = "idle"
    /\ \/ /\ model = 0 /\ labels = << >> /\ loads = 0
          /\ input_shape = "unset" /\ output_shape = 0 /\ interp_shape = "none"
          /\ p_scores = << 0 >>
       \/ \E n \in 1..MaxOut :
            \* load_model raised at open(labels_path)
            /\ model = n /\ labels = << >> /\ loads = 1
            /\ input_shape = "unset" /\ output_shape = 0
            /\ interp_shape \in InputShapes
            /\ p_scores \in [1..n -> {0}]
       \/ \E n \in 1..MaxOut, lines \in LabelFiles :
            \* load_model raised at input_details[0]
            /\ model = n /\ labels = read_labels(lines) /\ loads = 1
            /\ input_shape = "unset" /\ output_shape = 0
            /\ interp_shape = NoInputs
            /\ p_scores \in [1..n -> {0}]
       \/ \E n \in 1..MaxOut, lines \in LabelFiles :
            /\ model = n /\ labels = read_labels(lines) /\ loads = 1
            /\ input_shape \in InputShapes /\ interp_shape = input_shape
            /\ output_shape = n
            /\ p_scores \in [1..n -> ScoreVals]

NextPredict == PredictCall

SpecPredict == InitPredict /\ [][NextPredict]_vars

\* estimate_severity on every confidence, for differing images and labels
InitSeverity ==
    /\ PredictorInit /\ RequestsInit /\ PredictIdle /\ LookupIdle /\ ValidateIdle
    /\ DirectIdle /\ Loaded
    /\ s_confidence \in (0 - ConfBelow)..MaxConf
    /\ s_calls = [c \in 1..NumCalls |-> NoCall]

NextSeverity == \E c \in 1..NumCalls : SeverityCall(c)

SpecSeverity == InitSeverity /\ [][NextSeverity]_vars

\* the two lookups on every label and every limit
InitLookup ==
    /\ PredictorInit /\ RequestsInit /\ PredictIdle /\ SeverityIdle /\ ValidateIdle
    /\ DirectIdle /\ Loaded
    /\ l_disease \in LookupLabels
    /\ l_limit \in 0..MaxLimit
    /\ l_recs = NotLookedUp
    /\ l_cases = NotLookedUp

NextLookup == RecommendCall \/ SimilarCasesCall

SpecLookup == InitLookup /\ [][NextLookup]_vars

\* validate_image_file on every file
InitValidate ==
    /\ PredictorInit /\ RequestsInit /\ PredictIdle /\ SeverityIdle /\ LookupIdle
    /\ DirectIdle /\ Loaded
    /\ v_file \in Files
    /\ v_result = NotValidated
    /\ v_run = NotRun
    /\ v_pos = 0

NextValidate == ValidateCall

SpecValidate == InitValidate /\ [][NextValidate]_vars

\* Files handed to the decoder: named, 100 pixels high, otherwise any
DecodeFiles == { f \in Files : f.stem = "leaf" /\ f.height = MinDimension }

\* preprocess on every such file, after validate_image_file or without it,
\* where image_processor.py loaded; where it did not, only the validator
\* (a module of its own) can be called
InitDecode ==
    /\ PredictorInit /\ RequestsInit /\ PredictIdle /\ SeverityIdle /\ LookupIdle
    /\ DirectIdle /\ ProcessorLoad
    /\ v_file \in DecodeFiles
    /\ v_result = NotValidated
    /\ v_run = NotRun
    /\ v_pos = 0

NextDecode == ValidateCall \/ \E c \in 1..NumRuns : PreprocessCall(c)

SpecDecode == InitDecode /\ [][NextDecode]_vars

\* the predictor's methods called directly, before and after load_model
InitHandle ==
    /\ PredictorInit /\ RequestsInit /\ LookupIdle /\ ValidateIdle /\ DirectIdle
    /\ server = "serving" /\ numpy_behavior \in BOOLEAN
    /\ p_scores \in { Network(l, MaxOut) : l \in 1..NumLeaves }
    /\ p_result = NoPrediction
    /\ s_confidence = 92
    /\ s_calls = [c \in 1..NumCalls |-> NoCall]

NextHandle ==
    \/ LoadModel
    \/ PredictCall
    \/ SeverityCall(1)
    \/ RecommendCall
    \/ SimilarCasesCall
    \/ ReadyCall

SpecHandle == InitHandle /\ [][NextHandle]_vars

(***************************************************************************)
(* Properties                                                              *)
(***************************************************************************)

\* A request is inside the inference section once it has called set_tensor
\* and until get_tensor has returned.
InSection(r) == pc[r] \in {"invoke", "get_tensor"}

\* C1: inference on the shared interpreter is serialized: no two requests
\* are inside the set_tensor / invoke / get_tensor section at the same time.
C1_InferenceSerialized ==
    \A r1, r2 \in Requests : r1 # r2 => ~(InSection(r1) /\ InSection(r2))

\* C2: the scores a request reads back were computed from the input tensor
\* that same request set.
C2_OwnScores ==
    \A r \in Requests : req[r].prediction.status = "ok" => req[r].src = r

\* C3: the top-1 view and the top-3 view agree: disease_name and confidence
\* are the disease and confidence of the rank-1 entry of top_predictions.
C3_Top1IsRank1 ==
    p_result.status = "ok" =>
        /\ p_result.disease_name = p_result.top_predictions[1].disease
        /\ p_result.confidence = p_result.top_predictions[1].confidence

\* The position of a label in the label list.
LabelIndex(d) == CHOOSE i \in 1..Len(labels) : labels[i] = d

\* C4: of two listed labels with identical confidence, the one with the
\* lower index in the label list is ranked above the other.
C4_TiesKeepLabelOrder ==
    p_result.status = "ok" =>
        \A a, b \in 1..Len(p_result.top_predictions) :
            (/\ a < b
             /\ p_result.top_predictions[a].confidence
                    = p_result.top_predictions[b].confidence)
            => LabelIndex(p_result.top_predictions[a].disease)
                    < LabelIndex(p_result.top_predictions[b].disease)

\* The label indices listed in top_predictions.
Listed == { LabelIndex(p_result.top_predictions[k].disease) :
                k \in 1..Len(p_result.top_predictions) }

\* C5: top_predictions is sorted non-increasing by confidence, its ranks are
\* 1, 2, ... in list order, and no label outside the list has a strictly
\* higher score than a listed entry.
C5_RankingSorted ==
    p_result.status = "ok" =>
        LET tp == p_result.top_predictions
        IN  /\ \A k \in 1..(Len(tp) - 1) : tp[k].confidence >= tp[k + 1].confidence
            /\ \A k \in 1..Len(tp) : tp[k].rank = k
            /\ \A i \in (1..Len(p_scores)) \ Listed :
                 \A k \in 1..Len(tp) : p_scores[i] <= tp[k].confidence

\* A ranking of a four-score vector with distinct and tied scores: one
\* label is left out of the list.
C5_Witness ==
    /\ p_result.status = "ok"
    /\ Len(p_scores) = 4
    /\ Len(p_result.top_predictions) = 3
    /\ p_result.top_predictions[1].confidence > p_result.top_predictions[2].confidence
    /\ p_result.top_predictions[2].confidence = p_result.top_predictions[3].confidence
    /\ \E i \in (1..4) \ Listed : p_scores[i] < p_result.top_predictions[3].confidence

\* C6: every confidence predict returns, the top-level one and each entry
\* of top_predictions, lies in [0,1].
C6_ConfidencesInUnitInterval ==
    p_result.status = "ok" =>
        /\ 0 <= p_result.confidence /\ p_result.confidence <= 100
        /\ \A k \in 1..Len(p_result.top_predictions) :
             /\ 0 <= p_result.top_predictions[k].confidence
             /\ p_result.top_predictions[k].confidence <= 100

\* C7: exactly one level per confidence: high iff confidence > 0.8, medium
\* iff 0.6 < confidence <= 0.8, low otherwise.
C7_SeverityLevels ==
    \A c \in 1..NumCalls : s_calls[c].done =>
        LET level == s_calls[c].severity.level
        IN  /\ level \in {"low", "medium", "high"}
            /\ level = "high"   <=> s_confidence > 80
            /\ level = "medium" <=> (60 < s_confidence /\ s_confidence <= 80)
            /\ level = "low"    <=> s_confidence <= 60

\* estimate_severity has answered for a confidence on a threshold.
C7_Witness ==
    \E c \in 1..NumCalls :
        /\ s_calls[c].done
        /\ \/ s_confidence = 80 /\ s_calls[c].severity.level = "medium"
           \/ s_confidence = 60 /\ s_calls[c].severity.level = "low"

\* C8: affected_area_percentage equals min(confidence*100, 95) and lies in
\* [0,95], for every confidence passed to estimate_severity.
C8_AffectedArea ==
    \A c \in 1..NumCalls : s_calls[c].done =>
        LET area == s_calls[c].severity.affected_area_percentage
        IN  /\ s_confidence * 100 <= 9500 => area = s_confidence * 100
            /\ s_confidence * 100 > 9500 => area = 9500
            /\ 0 <= area /\ area <= 9500

\* C9: action_required is true exactly when level is medium or high, that
\* is exactly when confidence > 0.6.
C9_ActionRequired ==
    \A c \in 1..NumCalls : s_calls[c].done =>
        /\ s_calls[c].severity.action_required
              <=> s_calls[c].severity.level \in {"medium", "high"}
        /\ s_calls[c].severity.action_required <=> s_confidence > 60

\* estimate_severity has answered medium, with action required.
C9_Witness ==
    \E c \in 1..NumCalls :
        /\ s_calls[c].done
        /\ s_calls[c].severity.level = "medium"
        /\ s_calls[c].severity.action_required

\* C10: the severity estimate depends only on the confidence: two calls
\* with the same confidence get the same level, affected area, description
\* and action_required, whatever their images and labels.
C10_SeverityByConfidenceOnly ==
    \A c1, c2 \in 1..NumCalls :
        (s_calls[c1].done /\ s_calls[c2].done)
            => s_calls[c1].severity = s_calls[c2].severity

\* Two calls at confidence 0.92 with different images, one labelled
\* "healthy" and one not, both answered high.
C10_Witness ==
    \E c1, c2 \in 1..NumCalls :
        /\ s_confidence = 92
        /\ s_calls[c1].done /\ s_calls[c2].done
        /\ s_calls[c1].image # s_calls[c2].image
        /\ s_calls[c1].disease = "healthy"
        /\ s_calls[c2].disease # "healthy"
        /\ s_calls[c1].severity.level = "high"
        /\ s_calls[c1].severity.action_required

\* C11: get_treatment_recommendations never returns an empty list: a label
\* absent from the treatment table gets exactly one generic fallback entry,
\* a label present gets that label's entries.
C11_RecommendationsNeverEmpty ==
    l_recs.called =>
        /\ Len(l_recs.entries) >= 1
        /\ l_disease \notin {"tomato_early_blight", "maize_rust"} =>
             /\ Len(l_recs.entries) = 1
             /\ l_recs.entries[1].type = "general"
             /\ l_recs.entries[1].name = "Consult agricultural expert"
        /\ l_disease = "tomato_early_blight" =>
             /\ Len(l_recs.entries) = 2
             /\ l_recs.entries[1].name = "Chlorothalonil"
             /\ l_recs.entries[2].name = "Crop rotation"
        /\ l_disease = "maize_rust" =>
             /\ Len(l_recs.entries) = 1
             /\ l_recs.entries[1].name = "Triazole fungicides"

\* The lookup has answered for a label the treatment table does not hold.
C11_Witness ==
    /\ l_recs.called
    /\ l_disease = "Late Blight"
    /\ Len(l_recs.entries) = 1
    /\ l_recs.entries[1].about = "Late Blight"

\* C12: find_similar_cases returns at most `limit` case summaries, for
\* every label and every limit.
C12_AtMostLimitCases ==
    l_cases.called => Len(l_cases.entries) <= l_limit

\* The stages of a request, in pipeline order.
Pipeline == << "validated", "decoded", "classified", "severity", "enriched" >>

IsPrefix(s, t) == Len(s) <= Len(t) /\ \A i \in 1..Len(s) : s[i] = t[i]

Has(s, x) == \E i \in 1..Len(s) : s[i] = x

\* The terminal states of a request: a diagnosis was returned, or an error.
Complete(r) == pc[r] = "done" /\ req[r].code = 200
Failed(r)   == pc[r] = "done" /\ req[r].code # 200

\* C13: a request reaches Complete only after passing, in this order and
\* each exactly once, validation, decoding, classification, severity and
\* recommendations/cases; no stage is run before its predecessor succeeded.
C13_StagesInOrder ==
    \A r \in Requests :
        /\ IsPrefix(req[r].stages, Pipeline)
        /\ Complete(r) => req[r].stages = Pipeline
        /\ Has(req[r].calls, "preprocess") => Has(req[r].stages, "validated")
        /\ Has(req[r].calls, "predict")    => Has(req[r].stages, "decoded")
        /\ Has(req[r].stages, "classified") => Has(req[r].calls, "get_tensor")

\* A request answered with a diagnosis after all five stages.
C13_Witness ==
    /\ Complete(1)
    /\ req[1].stages = Pipeline
    /\ req[1].prediction.status = "ok"
    /\ Len(req[1].prediction.recommendations) >= 1

\* C14: a request whose file validate_image_file rejects never calls the
\* decoder nor the model; it ends Failed with the validation message.
C14_InvalidStopsAtValidation ==
    \A r \in Requests :
        (req[r].validation # NotValidated /\ ~req[r].validation.valid) =>
            /\ req[r].calls = << "validate" >>
            /\ req[r].stages = << >>
            /\ Failed(r)
            /\ req[r].code = 400
            /\ req[r].error = req[r].validation.message
            /\ req[r].prediction = NoPrediction

\* A request rejected for a too small image.
C14_Witness ==
    /\ Failed(1)
    /\ req[1].validation.message = "Image too small. Minimum size: 100x100 pixels"
    /\ req[1].error = "Image too small. Minimum size: 100x100 pixels"
    /\ req[1].calls = << "validate" >>

NoRepeats(s) == \A i, j \in 1..Len(s) : s[i] = s[j] => i = j

\* C15: every request ends in exactly one terminal state, Complete or
\* Failed; no step leaves a terminal state; no pipeline function is called
\* twice by one request.
C15_OneTerminalState ==
    /\ [](server = "serving" => <>(pc[1] = "done"))
    /\ [][\A r \in Requests :
            pc[r] = "done" => (pc'[r] = "done" /\ req'[r] = req[r])]_vars
    /\ [](\A r \in Requests :
            /\ NoRepeats(req[r].calls)
            /\ pc[r] # "done" => (req[r].code = 0 /\ req[r].error = "")
            /\ pc[r] = "done" =>
                 \/ /\ req[r].code = 200 /\ req[r].error = ""
                    /\ req[r].prediction.status = "ok"
                 \/ /\ req[r].code \in {400, 500} /\ req[r].error # "")

\* A request that failed in the decoder, after one decode attempt.
C15_Witness ==
    /\ Failed(1)
    /\ req[1].error = "Could not decode image"
    /\ req[1].calls = << "validate", "preprocess" >>

\* C16: while no model is loaded, is_ready is false and a request that
\* calls predict fails with the model-not-loaded error, with no result and
\* with the interpreter's tensors untouched.
C16_NoModelNoPrediction ==
    model = 0 =>
        /\ ~is_ready
        /\ in_tensor = FreshInput /\ out_tensor = FreshOutput
        /\ \A r \in Requests :
             Has(req[r].calls, "predict") =>
                /\ Failed(r)
                /\ req[r].error = ModelNotLoaded
                /\ req[r].prediction = NoPrediction
                /\ req[r].calls = << "validate", "preprocess", "predict" >>

\* predict was called with no model loaded and has failed.
C16_Witness ==
    /\ model = 0
    /\ Failed(1)
    /\ req[1].error = ModelNotLoaded
    /\ Has(req[1].calls, "predict")

\* The class of the exception a message of the pipeline comes from.
ExcType(msg) ==
    CASE msg = ModelNotLoaded            -> "ValueError"
      [] msg = CannotSetTensor           -> "ValueError"
      [] msg = "Could not decode image"  -> "ValueError"
      [] msg = NoInputShape              -> "AttributeError"
      [] msg = NoAstype                  -> "AttributeError"
      [] msg = RequestTooLarge           -> "RequestEntityTooLarge"
      [] msg = DatabaseError             -> "OperationalError"
      [] msg = "list index out of range" -> "IndexError"
      [] OTHER                           -> "none"

\* The kind of failure a caller sees: the status of the response, and the
\* class of the exception behind it.
Kind(rq) == [code |-> rq.code, exc |-> ExcType(rq.error)]

\* C17: a prediction attempted with no model loaded and a prediction that
\* fails inside the inference block are reported as failures of different
\* kinds.
C17_FailureKindsDiffer ==
    \A r1, r2 \in Requests :
        (req[r1].error = ModelNotLoaded /\ req[r2].error = CannotSetTensor)
            => Kind(req[r1]) # Kind(req[r2])

\* C18: whenever a prediction request is being handled, the shared
\* predictor has a model and labels loaded.
C18_ModelLoadedWhenHandling ==
    \A r \in Requests :
        pc[r] \in {"validated", "decoded", "set_tensor", "invoke",
                   "get_tensor", "classified"} => is_ready

\* The name of the file ends with one of the allowed extensions, in any
\* letter case.
EndsWithAllowedExtension(f) ==
    f.ext \in {".jpg", ".jpeg", ".png", ".gif", ".bmp", ".webp", ".JPG", ".PNG"}

\* A media type was detected: the bytes were read and libmagic answered.
Detected(f) == f.fault = "none"

\* The media type detected in the bytes is one of the allowed ones.
DetectedTypeAllowed(f) ==
    /\ Detected(f)
    /\ f.mime \in {"image/jpeg", "image/png", "image/gif", "image/bmp", "image/webp"}

\* C19: validate_image_file answers valid only if the extension of the name
\* is allowed and the media type detected in the bytes is allowed; a file
\* failing either check alone is rejected.
C19_ExtensionAndTypeBothRequired ==
    v_result # NotValidated =>
        /\ v_result.valid =>
             (EndsWithAllowedExtension(v_file) /\ DetectedTypeAllowed(v_file))
        /\ (EndsWithAllowedExtension(v_file) /\ ~DetectedTypeAllowed(v_file))
             => ~v_result.valid
        /\ (EndsWithAllowedExtension(v_file) /\ Detected(v_file)
                /\ ~DetectedTypeAllowed(v_file))
             => v_result.message = "Invalid file type: " \o v_file.mime
        /\ (~EndsWithAllowedExtension(v_file) /\ DetectedTypeAllowed(v_file))
             => ~v_result.valid

\* A well-formed picture of allowed size under an allowed name, whose bytes
\* are detected as plain text, has been rejected.
C19_Witness ==
    /\ v_result # NotValidated
    /\ v_file.stem = "leaf" /\ v_file.ext = ".jpg"
    /\ v_file.mime = "text/plain"
    /\ v_file.verifies
    /\ v_file.width = 100 /\ v_file.height = 100 /\ v_file.size = MaxFileSize
    /\ ~v_result.valid

TooSmall == "Image too small. Minimum size: 100x100 pixels"
TooLarge == "Image too large. Maximum size: 5000x5000 pixels"

OutOfRange(f) ==
    f.width < 100 \/ f.height < 100 \/ f.width > 5000 \/ f.height > 5000

\* C20 as stated: every image with a width or height below 100 or above
\* 5000 is rejected with a size-related message; 100 and 5000 are not
\* rejected by the dimension check.
C20_OutOfRangeSizeMessage ==
    v_result # NotValidated =>
        /\ OutOfRange(v_file) =>
             (~v_result.valid /\ v_result.message \in {TooSmall, TooLarge})
        /\ ~OutOfRange(v_file) => v_result.message \notin {TooSmall, TooLarge}

\* The file gets as far as the dimension check: it has a name, an allowed
\* extension and detected media type, and PIL opens and verifies it.
ReachesDimensionCheck(f) ==
    /\ ~(f.stem = "" /\ f.ext = "")
    /\ EndsWithAllowedExtension(f)
    /\ DetectedTypeAllowed(f)
    /\ f.verifies

\* C20, amended: every file with a width or height below 100 or above 5000
\* is rejected; if it has a name, an allowed extension, an allowed detected
\* media type and verifies as an image, the message is the "too small" one
\* (some side below 100) or else the "too large" one; widths and heights of
\* exactly 100 and 5000 never get either message.
C20_OutOfRangeRejected ==
    v_result # NotValidated =>
        /\ OutOfRange(v_file) => ~v_result.valid
        /\ (OutOfRange(v_file) /\ ReachesDimensionCheck(v_file)) =>
             v_result.message =
                IF v_file.width < 100 \/ v_file.height < 100 THEN TooSmall ELSE TooLarge
        /\ ~OutOfRange(v_file) => v_result.message \notin {TooSmall, TooLarge}

\* A 99 x 100 picture, otherwise acceptable, has been rejected as too small.
C20_Witness ==
    /\ v_result # NotValidated
    /\ ReachesDimensionCheck(v_file)
    /\ v_file.width = 99 /\ v_file.height = 100
    /\ v_result = [valid |-> FALSE, message |-> TooSmall]

\* C21: every decodable image with an allowed extension, an allowed
\* detected media type, width and height in [100,5000] and at most
\* 16*1024*1024 bytes is answered valid.
C21_AcceptableImageIsValid ==
    v_result # NotValidated =>
        ((/\ EndsWithAllowedExtension(v_file)
          /\ DetectedTypeAllowed(v_file)
          /\ v_file.verifies
          /\ v_file.width \in 100..5000 /\ v_file.height \in 100..5000
          /\ v_file.size <= 16 * 1024 * 1024)
         => (v_result.valid /\ v_result.message = "Image file is valid"))

\* A 5000 x 100 picture of exactly 16 MiB has been answered valid.
C21_Witness ==
    /\ v_result.valid
    /\ v_file.width = 5000 /\ v_file.height = 100
    /\ v_file.size = 16 * 1024 * 1024
    /\ v_file.ext = ".PNG"

\* C22: a file of more than 16 MiB (with an allowed name and detected type)
\* is rejected as too large, and its size is checked before PIL is asked to
\* open or verify it.
C22_SizeCheckedBeforeDecode ==
    (/\ v_run # NotRun
     /\ v_file.size > 16 * 1024 * 1024
     /\ EndsWithAllowedExtension(v_file) /\ DetectedTypeAllowed(v_file))
    => /\ ~v_run.valid
       /\ v_run.message = "File too large. Maximum size: 16MB"
       /\ ~Has(v_run.ops, "open") /\ ~Has(v_run.ops, "verify")

\* The check that fails first, in the order filename, extension, reading
\* the bytes and detecting their type, detected type, opening and verifying
\* the image, minimum and maximum dimensions, byte size.
FirstFailing(f) ==
    CASE f.stem = "" /\ f.ext = ""          -> "No image file selected"
      [] ~EndsWithAllowedExtension(f)       -> "File type not allowed"
      [] ~Detected(f)                       -> "Validation error"
      [] ~DetectedTypeAllowed(f)            -> "Invalid file type: " \o f.mime
      [] ~f.opens \/ ~f.verifies            -> "Invalid image file"
      [] f.width < 100 \/ f.height < 100    -> TooSmall
      [] f.width > 5000 \/ f.height > 5000  -> TooLarge
      [] f.size > 16 * 1024 * 1024          -> "File too large. Maximum size: 16MB"
      [] OTHER                              -> "Image file is valid"

\* C23: validate_image_file never raises, whether read(), libmagic or PIL
\* raise inside it; every return has 'valid' and 'message'; mime_type,
\* dimensions and file_size are there exactly when valid is true; the first
\* failing check alone decides the outcome.
C23_OutcomeNeverPartial ==
    v_run # NotRun =>
        /\ ~v_run.raised
        /\ {"valid", "message"} \subseteq v_run.keys
        /\ v_run.valid \in BOOLEAN /\ v_run.message # ""
        /\ v_run.valid <=>
             v_run.keys = {"valid", "message", "mime_type", "dimensions", "file_size"}
        /\ ~v_run.valid <=> v_run.keys = {"valid", "message"}
        /\ v_run.valid =>
             /\ v_run.mime_type = v_file.mime
             /\ v_run.dimensions = << v_file.width, v_file.height >>
             /\ v_run.file_size = v_file.size
        /\ v_run.message = FirstFailing(v_file)
        /\ v_run.valid <=> FirstFailing(v_file) = "Image file is valid"

\* A file failing three checks, libmagic raising on it, PIL not opening it
\* and the byte size, has been rejected for the first of them, the
\* exception caught by the outer handler.
C23_Witness ==
    /\ v_run # NotRun
    /\ v_file.fault = "magic" /\ ~v_file.opens /\ v_file.size > 16 * 1024 * 1024
    /\ v_run.ops = << "read", "seek(0)", "magic" >>
    /\ v_run.message = "Validation error"
    /\ v_run.keys = {"valid", "message"}
    /\ ~v_run.raised

\* C24: preprocess on bytes the codec cannot parse, the validator run
\* before or not, ends in an error raised to the caller; no pixel array is
\* returned and enhance_image is not reached.
C24_UndecodableRaises ==
    \A c \in 1..NumRuns :
        (d_runs[c].done /\ (~v_file.cv2_ok \/ d_runs[c].bytes = 0)) =>
            /\ d_runs[c].status = "error"
            /\ d_runs[c].error # ""
            /\ d_runs[c].pixels = NoPixels
            /\ ~Has(d_runs[c].ops, "cvtColor")
            /\ ~Has(d_runs[c].ops, "enhance_image")

\* preprocess has failed on a file the codec cannot parse and that was
\* never handed to the validator.
C24_Witness ==
    \E c \in 1..NumRuns :
        /\ d_runs[c].done /\ ~d_runs[c].validated
        /\ ~v_file.cv2_ok /\ d_runs[c].bytes = v_file.size
        /\ v_run = NotRun
        /\ d_runs[c].error = "Could not decode image"

\* C25: two runs of preprocess on the same input, a fresh stream over the
\* file's bytes or the uploaded file object once more, end the same way:
\* the second run neither fails where the first returned nor returns other
\* pixels.
C25_SameInputSameOutput ==
    \A c1, c2 \in 1..NumRuns :
        (d_runs[c1].done /\ d_runs[c2].done)
            => /\ d_runs[c1].status = d_runs[c2].status
               /\ d_runs[c1].error = d_runs[c2].error
               /\ d_runs[c1].pixels = d_runs[c2].pixels

\* C29: every return of validate_image_file that has read the file, the
\* returns of the two exception handlers included, leaves the read position
\* at the beginning, and a preprocess that reads the stream from where the
\* validator left it gets all the bytes.
C29_StreamRewound ==
    (v_run # NotRun /\ Has(v_run.ops, "read")) =>
        /\ v_run.position = 0
        /\ \A c \in 1..NumRuns :
             (/\ d_runs[c].done /\ ~d_runs[c].fresh /\ d_runs[c].validated
              /\ d_runs[c].start = v_run.position)
             => d_runs[c].bytes = v_file.size

\* A validated file has been decoded from the stream the validator left.
C29_Witness ==
    \E c \in 1..NumRuns :
        /\ v_run.valid /\ Has(v_run.ops, "seek(0,2)")
        /\ d_runs[c].done /\ ~d_runs[c].fresh /\ d_runs[c].validated
        /\ d_runs[c].bytes = v_file.size
        /\ d_runs[c].status = "ok"

\* C26: once a model is loaded, no call of predict, estimate_severity,
\* get_treatment_recommendations, find_similar_cases or is_ready changes
\* the model reference, the label list, input_shape or output_shape; only
\* load_model does.
C26_HandleReadOnly ==
    [][(model # 0 /\ loads' = loads /\ loading' = loading)
          => UNCHANGED <<model, labels, input_shape, output_shape, interp_shape>>]_vars

\* All five methods have been called on a loaded predictor.
C26_Witness ==
    /\ model # 0 /\ Len(labels) = MaxOut
    /\ p_result.status = "ok"
    /\ s_calls[1].done
    /\ l_recs.called /\ l_cases.called
    /\ h_ready.called /\ h_ready.ready

\* C27: a request that fails in validation or in decoding leaves the
\* predictor (model, labels, shapes, tensors) and the stored reports
\* exactly as they were.
C27_FailedRequestLeavesNoTrace ==
    [][\A r \in Requests :
          (pc[r] \in {"start", "validated"} /\ pc'[r] = "done")
              => UNCHANGED <<predictorVars, reports>>]_vars

\* A request has failed in the decoder while a model was loaded.
C27_Witness ==
    /\ Failed(1)
    /\ req[1].error = "Could not decode image"
    /\ is_ready
    /\ reports = << >>

\* C28: whenever is_ready is false, predict fails with the model-not-loaded
\* error, also after a load_model that raised partway or read no labels.
C28_NotReadyMeansNotLoaded ==
    (~is_ready /\ p_result.status # "none") => p_result = Raised(ModelNotLoaded)

\* The reports stored for request r.
ReportsOf(r) == { i \in 1..Len(reports) : reports[i].request = r }

\* The prediction of request r succeeded: predict returned a diagnosis.
Diagnosed(r) == req[r].prediction.status = "ok"

\* C30: a report is stored only for a request that passed validation,
\* decoding and prediction and came with a farmer_id, at most one per
\* request; a request that failed or came without farmer_id stores nothing;
\* a request whose prediction succeeded returns its diagnosis as predict
\* returned it, report_id aside, whatever becomes of the report.
C30_ReportOnlyForDiagnosis ==
    /\ [](\A r \in Requests :
            /\ Cardinality(ReportsOf(r)) <= 1
            /\ \A i \in ReportsOf(r) :
                 /\ pc[r] \in {"committed", "done"}
                 /\ req[r].stages = Pipeline
                 /\ req[r].farmer_id # ""
                 /\ reports[i].farmer_id = req[r].farmer_id
                 /\ reports[i].disease_name = req[r].prediction.disease_name
                 /\ reports[i].confidence = req[r].prediction.confidence
                 /\ pc[r] = "done" => (Complete(r) /\ req[r].report_id = i)
            /\ (Failed(r) \/ (Complete(r) /\ req[r].farmer_id = ""))
                 => (ReportsOf(r) = {} /\ req[r].report_id = 0)
            /\ Complete(r) => Diagnosed(r)
            /\ (pc[r] = "done" /\ Diagnosed(r)) => Complete(r))
    /\ [][\A r \in Requests :
            pc[r] \in {"classified", "committed"}
                => req'[r].prediction = req[r].prediction]_vars

====
